---- MODULE Spec2Model ----
(***************************************************************************)
(* Model of the Workerpool dispatcher (src/Workerpool.ts, class Workerpool,*)
(* lines 82-310) and of the Runner wrapper (src/unnamed/part_003).         *)
(*                                                                         *)
(* The dispatcher is single threaded; a handler runs without interruption  *)
(* up to its next await.  Every await of a caller supplied Promisable      *)
(* (options.enqueue, options.dequeue, the executor's execute and hooks,    *)
(* the dispose hooks, onTaskFinished) is a suspension point: what follows  *)
(* it is a separate action, and everything between two suspension points   *)
(* is one action.  The queue provider is asynchronous: it stores or locks  *)
(* a task at some moment between the call and the resumption of the        *)
(* caller.  A synchronous provider is the case where that moment directly  *)
(* follows the call.  The provider never hands out a task that is in       *)
(* flight, and hands out a task whenever one is pending.                   *)
(***************************************************************************)
EXTENDS Integers, Sequences, FiniteSets, TLC

\* ---- bounds of the model ------------------------------------------------
NumTasks == 2
MaxRunners == 3
MaxConcurrency == 2
MaxRetries == 2
MaxPending == 1

\* ---- program constants --------------------------------------------------
Infinity == 99
\* the executionCount of a task object that has none
Missing == -1

Tasks == 1..NumTasks
RunnerIds == 1..MaxRunners

\* The task names of a run: every task named "A" (the "should process all
\* tasks" test), or tasks named "A", "B", "A", ... in turn (the "should swap
\* workers" test)
SameNames == [t \in Tasks |-> "A"]
AlternatingNames == [t \in Tasks |-> IF t % 2 = 1 THEN "A" ELSE "B"]

\* the names the `runners` option registers an executable class for
Registered == {"A", "B"}

\* a run whose first task names no registered executable
UnregisteredNames == [t \in Tasks |-> IF t = 1 THEN "U" ELSE "A"]

\* tasks[t].status, where a task is:
\*   "new"        not yet passed to enqueue()
\*   "enqueuing"  passed to enqueue() (by the caller or by a retry), options.enqueue pending
\*   "queued"     stored by the provider, not locked
\*   "dequeued"   locked by options.dequeue, whose caller has not resumed yet
\*   "bouncing"   handed back for lack of a runner, options.enqueue pending
\*   "exec"       runner.execute called, the executor's execute pending
\*   "hook"       the executor settled, its onSuccess / onFailure hook pending
\*   "failhook"   the onSuccess hook threw, the onFailure hook pending
\*   "settled"    Runner.execute settled, the .then callback has not run yet
\*   "dropped"    dequeued, then #getRunner threw: still locked by the provider
\*   "refused"    Runner.execute threw at its busy guard, the .then callback has not run yet
\*   "finished"   reported to onTaskFinished
VARIABLES
  concurrency,          \* #concurrency
  maximumRetries,       \* #maximumRetries
  maximumTaskPerRunner, \* #maximumTaskPerRunner
  failing,              \* names whose executor's execute always throws an Error
  hooks,                \* names whose onFailure returns false, whose onSuccess throws, whose onFailure throws
  active,               \* #active
  state,                \* #state
  dequeueActive,        \* #dequeueActive
  runners,              \* #runners, in insertion order
  rt,                   \* the Runner objects ever created, by id
  tasks,                \* the Task objects and where each one is
  pulling,              \* #dequeue invocations awaiting options.dequeue(), provider undecided
  nonePending,          \* #dequeue invocations whose options.dequeue() resolved to undefined, not resumed
  enqConts,             \* doEnqueue invocations whose options.enqueue() resolved, not resumed
  disposeConts,         \* #disposeIdleRunners invocations awaiting Promise.all
  finallyPending,       \* per runner, .finally callbacks not yet run
  attempts,             \* per task, calls of runner.execute made for it
  reported,             \* per task, calls of onTaskFinished made for it
  refusals,             \* calls of Runner.execute made from outside the dispatcher that ended at the busy guard
  idleOrder,            \* the idle runners of the live set, in the order they became idle
  notified              \* onStateChange: the value of its last call, and whether a call ever repeated the value of the call before it

vars == <<concurrency, maximumRetries, maximumTaskPerRunner, failing, hooks, active,
          state, dequeueActive, runners, rt, tasks, pulling, nonePending,
          enqConts, disposeConts, finallyPending, attempts, reported, notified, idleOrder,
          refusals>>

config == <<concurrency, maximumRetries, maximumTaskPerRunner, failing, hooks>>

\* executors without hooks, or whose hooks return nothing
NoHooks == [onFailureFalse |-> {}, onSuccessThrows |-> {}, onFailureThrows |-> {}]

NoRunner == [name |-> "-", busy |-> FALSE, executionCount |-> 0,
             successCount |-> 0, failureCount |-> 0, disposed |-> FALSE]

Created(rec, r) == rec[r].name # "-"

InSeq(x, s) == \E i \in 1..Len(s) : s[i] = x

\* Set.prototype.delete on the insertion ordered set
SetDelete(s, x) == SelectSeq(s, LAMBDA y : y # x)

Init ==
  /\ concurrency \in 1..MaxConcurrency
  /\ \E nm \in {SameNames, AlternatingNames, UnregisteredNames} :
       /\ tasks = [t \in Tasks |-> [name |-> nm[t], status |-> "new",
                                    executionCount |-> Missing, runner |-> 0]]
       /\ failing \in (IF nm = AlternatingNames THEN {{}, {"B"}} ELSE {{}})
  /\ maximumRetries \in (IF failing = {} THEN {0} ELSE 0..MaxRetries)
  /\ hooks \in (IF \E t \in Tasks : tasks[t].name # AlternatingNames[t] THEN {NoHooks}
                ELSE IF failing = {} THEN {NoHooks, [NoHooks EXCEPT !.onSuccessThrows = {"B"}]}
                ELSE IF maximumRetries = MaxRetries
                THEN {NoHooks, [NoHooks EXCEPT !.onFailureFalse = {"B"}],
                      [NoHooks EXCEPT !.onFailureThrows = {"B"}]}
                ELSE {NoHooks})
  /\ maximumTaskPerRunner \in {1, Infinity}
  /\ active = FALSE
  /\ state = "drained"
  /\ dequeueActive = FALSE
  /\ runners = <<>>
  /\ notified = [last |-> "none", repeated |-> FALSE]
  /\ idleOrder = <<>>
  /\ refusals = 0
  /\ rt = [r \in RunnerIds |-> NoRunner]
  /\ pulling = 0
  /\ nonePending = 0
  /\ enqConts = 0
  /\ disposeConts = 0
  /\ finallyPending = [r \in RunnerIds |-> 0]
  /\ attempts = [t \in Tasks |-> 0]
  /\ reported = [t \in Tasks |-> 0]

\* ---- Runner (src/unnamed/part_003) --------------------------------------

\* new Runner(new executableClass(), executableClass.name)
NewRunner(name) == [NoRunner EXCEPT !.name = name]

\* Runner.execute, the busy guard: called on a busy runner it throws a plain
\* Error and changes nothing
RunnerExecuteRefuses(rec, r) == rec[r].busy

\* a busy guard placed inside the try block, so that the finally clause runs
RunnerExecuteBusyFinalized(rec, r) ==
  [rec EXCEPT ![r].executionCount = @ + 1, ![r].busy = FALSE]

\* Runner.execute called on a busy runner: the guard throws before the try
\* block and the runner is left as it is (lines 45-47)
RunnerExecuteBusy(rec, r) == rec

\* Runner.execute up to its first await: the busy guard passed, busy is set
RunnerExecuteStart(rec, r) == [rec EXCEPT ![r].busy = TRUE]

\* Runner.execute after `await this.runner.execute(payload)`: the try body
\* counts a success, the catch clause counts a failure; the hook is awaited next
RunnerExecuteSettle(rec, r, ok) ==
  IF ok THEN [rec EXCEPT ![r].successCount = @ + 1]
        ELSE [rec EXCEPT ![r].failureCount = @ + 1]

\* a finalizer that counts only the executions that did not fail
RunnerExecuteFinallyOnSuccess(rec, r) ==
  [rec EXCEPT ![r].executionCount = IF rec[r].failureCount > 0 THEN @ ELSE @ + 1,
              ![r].busy = FALSE]

\* Runner.execute, the finally clause
RunnerExecuteFinally(rec, r) ==
  [rec EXCEPT ![r].executionCount = @ + 1, ![r].busy = FALSE]

\* Runner.dispose: the executor's dispose hook is invoked
RunnerDispose(rec, r) == [rec EXCEPT ![r].disposed = TRUE]

\* ---- Workerpool helpers -------------------------------------------------

\* a filter that lets every runner through
IdleRunnersUnfiltered(rs, rec) == rs

\* [...this.#runners].filter((runner) => !runner.busy)
IdleRunners(rs, rec) == SelectSeq(rs, LAMBDA r : ~rec[r].busy)

\* a find that returns the last element that passes
FindLast(s, passing) ==
  LET hits == {i \in 1..Len(s) : s[i] \in passing}
  IN  IF hits = {} THEN 0 ELSE s[CHOOSE i \in hits : \A j \in hits : i >= j]

\* Array.prototype.find: the first element of s that passes the test (that is
\* in the set `passing`), 0 if none
Find(s, passing) ==
  LET hits == {i \in 1..Len(s) : s[i] \in passing}
  IN  IF hits = {} THEN 0 ELSE s[CHOOSE i \in hits : \A j \in hits : i <= j]

\* the id the next `new Runner` gets: ids are handed out in order, 0 when the
\* model has run out of ids
FreshId(rec) ==
  LET free == {r \in RunnerIds : ~Created(rec, r)}
  IN  IF free = {} THEN 0 ELSE CHOOSE r \in free : \A q \in free : r <= q

\* an off-by-one capacity test
HasCapacityOffByOne(size, cap) == size <= cap

\* the test of line 281
HasCapacity(size, cap) == size < cap

\* #getRunner(name): the runner returned (0 for undefined, -1 when the model has
\* no runner id left, -2 when it throws because no executable has the name)
\* and the live set and runner objects it leaves behind
RECURSIVE getRunner(_, _, _, _)
getRunner(name, rs, rec, cap) ==
  LET idleRunners == IdleRunners(rs, rec)
      runner == Find(idleRunners, {r \in RunnerIds : rec[r].name = name})
  IN  IF runner # 0 THEN [runner |-> runner, runners |-> rs, rt |-> rec]
      ELSE IF HasCapacity(Len(rs), cap)
      THEN LET id == FreshId(rec)
           IN  IF name \notin Registered THEN [runner |-> -2, runners |-> rs, rt |-> rec]
               ELSE IF id = 0 THEN [runner |-> -1, runners |-> rs, rt |-> rec]
               ELSE [runner |-> id, runners |-> Append(rs, id),
                     rt |-> [rec EXCEPT ![id] = NewRunner(name)]]
      ELSE LET idleRunner == Find(idleRunners, {r \in RunnerIds : rec[r].name # name})
           IN  IF idleRunner # 0
               THEN getRunner(name, SetDelete(rs, idleRunner),
                              RunnerDispose(rec, idleRunner), cap)
               ELSE [runner |-> 0, runners |-> rs, rt |-> rec]

\* a release that does not filter on busy
ReleasedRunnersUnfiltered(rs, rec) == rs

\* the runners #disposeIdleRunners releases (line 259)
ReleasedRunners(rs, rec) == IdleRunners(rs, rec)

\* #disposeIdleRunners up to `await Promise.all`: the idle runners leave the
\* live set and dispose() is called on each of them
disposeIdleRunners(rs, rec) ==
  LET idleRunners == ReleasedRunners(rs, rec)
  IN  [runners |-> SelectSeq(rs, LAMBDA r : ~InSeq(r, idleRunners)),
       rt |-> [r \in RunnerIds |->
                 IF InSeq(r, idleRunners) THEN RunnerDispose(rec, r)[r] ELSE rec[r]]]

\* #dequeue() up to its first await, entered with the values its caller left
\* (act: #active, st: #state, da: #dequeueActive, rs: #runners, rec: the runners):
\* inactive pool: the flag is cleared and, when draining, the idle runners are
\* released; active pool: options.dequeue() is called and awaited
dequeue(act, st, da, rs, rec) ==
  IF ~act
  THEN /\ dequeueActive' = FALSE
       /\ state' = st
       /\ pulling' = pulling
       /\ IF st = "draining"
          THEN LET d == disposeIdleRunners(rs, rec)
               IN  /\ runners' = d.runners
                   /\ rt' = d.rt
                   /\ disposeConts' = disposeConts + 1
          ELSE /\ runners' = rs
               /\ rt' = rec
               /\ disposeConts' = disposeConts
  ELSE /\ dequeueActive' = da
       /\ state' = st
       /\ pulling' = pulling + 1
       /\ runners' = rs
       /\ rt' = rec
       /\ disposeConts' = disposeConts

\* #startDequeue(): returns at once when a chain is marked active, otherwise
\* marks it, sets the state to running and enters #dequeue
startDequeue(act, st) ==
  IF dequeueActive
  THEN /\ state' = st
       /\ UNCHANGED <<dequeueActive, runners, rt, pulling, disposeConts>>
  ELSE dequeue(act, "running", TRUE, runners, rt)

\* idleOrder after a step: the runners that left the live set or became busy
\* drop out, the runners the step made idle come last
IdleOrderAfter(nowIdle) ==
  LET stillIdle(r) == InSeq(r, runners') /\ ~rt'[r].busy
  IN  SelectSeq(idleOrder, stillIdle) \o SelectSeq(nowIdle, stillIdle)

\* the values #startDequeue assigns to the state (line 191)
startDequeueAssigns == IF dequeueActive THEN <<>> ELSE <<"running">>

\* a setter that calls onStateChange on every assignment
NotificationsUnconditional(cur, values) == values

\* the state setter applied to the values a step assigns, in order, starting
\* from the state cur: the values onStateChange is called with (lines 122-127)
RECURSIVE Notifications(_, _)
Notifications(cur, values) ==
  IF values = <<>> THEN <<>>
  ELSE IF Head(values) = cur THEN Notifications(cur, Tail(values))
  ELSE <<Head(values)>> \o Notifications(Head(values), Tail(values))

\* what a step that assigns `values` to the state leaves in `notified`
Notified(values) ==
  LET n == Notifications(state, values)
      calls == <<notified.last>> \o n
  IN  [last |-> calls[Len(calls)],
       repeated |-> \/ notified.repeated
                    \/ \E i \in 1..Len(n) : calls[i] = calls[i + 1]]

\* the capacity test of enqueue (lines 173-175)
SpareCapacity ==
  \/ Len(runners) < concurrency
  \/ \E i \in 1..Len(runners) : ~rt[runners[i]].busy

\* a restart test that does not look at #active
RestartsDequeueInactive(act) == SpareCapacity

\* the test enqueue makes before it calls #startDequeue (lines 172-176)
RestartsDequeue(act) == act /\ SpareCapacity

\* a drain test that does not look at the runners
AllIdleUnchecked(rs, rec) == TRUE

\* the drain test of the no task branch (line 212)
AllIdle(rs, rec) == \A i \in 1..Len(rs) : ~rec[rs[i]].busy

\* the executor of a task: execute resolves, or throws an Error
ExecutorSucceeds(t) == tasks[t].name \notin failing

\* the onSuccess hook of the task's executor throws an Error
OnSuccessFails(t) == tasks[t].name \in hooks.onSuccessThrows

\* Runner.execute resolves: the executor and its onSuccess hook both returned
ExecuteResolves(t) == ExecutorSucceeds(t) /\ ~OnSuccessFails(t)

\* a rejection handler that takes every failure for retryable
RetryableWhateverTheHook(t) == TRUE

\* the rejection is a RunnerExecutionError marked retryable (lines 234-235):
\* onFailure returned, and `retryable ?? true` is false only when it returned
\* false (part_003 lines 66-72); an Error thrown by onFailure itself leaves
\* Runner.execute as it is
Retryable(t) ==
  /\ tasks[t].name \notin hooks.onFailureThrows
  /\ tasks[t].name \notin hooks.onFailureFalse

\* the retry test of the rejection handler (lines 233-237)
ShouldRetry(t, count) == Retryable(t) /\ count < maximumRetries

\* an enqueue() that starts every task it is given at zero
EnqueuedCountReset(count) == 0

\* the executionCount of the object enqueue() hands to the provider: the
\* destructuring default 0 applies only when the task has none (lines 164-169)
EnqueuedCount(count) == IF count = Missing THEN 0 ELSE count

\* a completion handler that reports every failed attempt
OnTaskFinishedCallsEveryAttempt(retried) == 1

\* the calls of onTaskFinished the completion handlers make for one attempt:
\* one on success (line 231) and on a failure that is not retried (line 240),
\* none when the task is passed to enqueue() again (line 238)
OnTaskFinishedCalls(retried) == IF retried THEN 0 ELSE 1

\* the retirement test of the finally callback (line 247)
Retire(r, rec) == rec[r].executionCount >= maximumTaskPerRunner

\* ---- the caller's operations ---------------------------------------------

\* start()
Start ==
  /\ ~active
  /\ active' = TRUE
  /\ startDequeue(TRUE, "running")
  /\ notified' = Notified(<<"running">> \o startDequeueAssigns)
  /\ UNCHANGED <<config, refusals, tasks, nonePending, enqConts, finallyPending, attempts, reported>>
  /\ idleOrder' = IdleOrderAfter(<<>>)

\* pause(), up to the await inside #disposeIdleRunners
Pause ==
  /\ active
  /\ disposeConts < MaxPending
  /\ active' = FALSE
  /\ state' = "draining"
  /\ LET d == disposeIdleRunners(runners, rt)
     IN  /\ runners' = d.runners
         /\ rt' = d.rt
  /\ disposeConts' = disposeConts + 1
  /\ notified' = Notified(<<"draining">>)
  /\ UNCHANGED <<config, refusals, dequeueActive, tasks, pulling, nonePending, enqConts,
                 finallyPending, attempts, reported>>
  /\ idleOrder' = IdleOrderAfter(<<>>)

\* enqueue(task), up to `await this.options.enqueue(...)`
Enqueue(t) ==
  /\ tasks[t].status = "new"
  /\ tasks' = [tasks EXCEPT ![t].status = "enqueuing",
                            ![t].executionCount = EnqueuedCount(@)]
  /\ notified' = Notified(<<>>)
  /\ UNCHANGED <<config, refusals, active, state, dequeueActive, runners, rt, pulling,
                 nonePending, enqConts, disposeConts, finallyPending, attempts, reported>>
  /\ idleOrder' = IdleOrderAfter(<<>>)

\* ---- the queue provider --------------------------------------------------

\* options.enqueue stores a task passed to enqueue() and its promise resolves
ProviderEnqueue(t) ==
  /\ tasks[t].status = "enqueuing"
  /\ tasks' = [tasks EXCEPT ![t].status = "queued"]
  /\ enqConts' = enqConts + 1
  /\ notified' = Notified(<<>>)
  /\ UNCHANGED <<config, refusals, active, state, dequeueActive, runners, rt, pulling,
                 nonePending, disposeConts, finallyPending, attempts, reported>>
  /\ idleOrder' = IdleOrderAfter(<<>>)

\* options.enqueue releases a bounced task; #dequeue returns after its await
ProviderRequeue(t) ==
  /\ tasks[t].status = "bouncing"
  /\ tasks' = [tasks EXCEPT ![t].status = "queued"]
  /\ notified' = Notified(<<>>)
  /\ UNCHANGED <<config, refusals, active, state, dequeueActive, runners, rt, pulling,
                 nonePending, enqConts, disposeConts, finallyPending, attempts, reported>>
  /\ idleOrder' = IdleOrderAfter(<<>>)

\* options.dequeue decides: it locks a pending task, or finds none
ProviderDequeue ==
  /\ pulling > 0
  /\ pulling' = pulling - 1
  /\ \/ \E t \in Tasks :
          /\ tasks[t].status = "queued"
          /\ tasks' = [tasks EXCEPT ![t].status = "dequeued"]
          /\ UNCHANGED nonePending
     \/ /\ \A t \in Tasks : tasks[t].status # "queued"
        /\ nonePending' = nonePending + 1
        /\ UNCHANGED tasks
  /\ notified' = Notified(<<>>)
  /\ UNCHANGED <<config, refusals, active, state, dequeueActive, runners, rt, enqConts,
                 disposeConts, finallyPending, attempts, reported>>
  /\ idleOrder' = IdleOrderAfter(<<>>)

\* ---- continuations of the dispatcher -------------------------------------

\* doEnqueue after `await this.options.enqueue(...)`
EnqueueCont ==
  /\ enqConts > 0
  /\ enqConts' = enqConts - 1
  /\ IF RestartsDequeue(active)
     THEN startDequeue(active, state)
     ELSE UNCHANGED <<state, dequeueActive, runners, rt, pulling, disposeConts>>
  /\ notified' = Notified(IF RestartsDequeue(active) THEN startDequeueAssigns ELSE <<>>)
  /\ UNCHANGED <<config, refusals, active, tasks, nonePending, finallyPending, attempts, reported>>
  /\ idleOrder' = IdleOrderAfter(<<>>)

\* #dequeue after `await this.options.dequeue()`, no task: the flag is cleared
\* and the state is set to drained when every live runner is idle
DequeueNone ==
  /\ nonePending > 0
  /\ nonePending' = nonePending - 1
  /\ dequeueActive' = FALSE
  /\ state' = (IF AllIdle(runners, rt) THEN "drained" ELSE state)
  /\ notified' = Notified(IF AllIdle(runners, rt) THEN <<"drained">> ELSE <<>>)
  /\ UNCHANGED <<config, refusals, active, runners, rt, tasks, pulling, enqConts,
                 disposeConts, finallyPending, attempts, reported>>
  /\ idleOrder' = IdleOrderAfter(<<>>)

\* #dequeue after `await this.options.dequeue()`, task t: a runner is resolved;
\* without one the task is handed back to options.enqueue and the chain stops;
\* when the resolution throws, the promise of #dequeue rejects where it stands;
\* with one executionCount is incremented, runner.execute is called and
\* #dequeue is entered again
DequeueTask(t) ==
  /\ tasks[t].status = "dequeued"
  /\ LET g == getRunner(tasks[t].name, runners, rt, concurrency)
     IN  /\ g.runner # -1
         /\ IF g.runner \in {0, -2}
            THEN /\ tasks' = [tasks EXCEPT ![t].status =
                                            IF g.runner = 0 THEN "bouncing" ELSE "dropped"]
                 /\ runners' = g.runners
                 /\ rt' = g.rt
                 /\ UNCHANGED <<state, dequeueActive, pulling, disposeConts, attempts>>
            ELSE /\ tasks' = [tasks EXCEPT ![t].status =
                                            IF RunnerExecuteRefuses(g.rt, g.runner)
                                            THEN "refused" ELSE "exec",
                                         ![t].executionCount = @ + 1,
                                         ![t].runner = g.runner]
                 /\ attempts' = [attempts EXCEPT ![t] = @ + 1]
                 /\ dequeue(active, state, dequeueActive, g.runners,
                            RunnerExecuteStart(g.rt, g.runner))
  /\ notified' = Notified(<<>>)
  /\ UNCHANGED <<config, refusals, active, nonePending, enqConts, finallyPending, reported>>
  /\ idleOrder' = IdleOrderAfter(<<>>)

\* the executor's execute settles inside Runner.execute; the hook is awaited
ExecutorSettles(t) ==
  /\ tasks[t].status = "exec"
  /\ tasks' = [tasks EXCEPT ![t].status = "hook"]
  /\ rt' = RunnerExecuteSettle(rt, tasks[t].runner, ExecutorSucceeds(t))
  /\ notified' = Notified(<<>>)
  /\ UNCHANGED <<config, refusals, active, state, dequeueActive, runners, pulling, nonePending,
                 enqConts, disposeConts, finallyPending, attempts, reported>>
  /\ idleOrder' = IdleOrderAfter(<<>>)

\* the awaited onSuccess hook throws: the catch clause of Runner.execute
\* counts a failure and awaits onFailure
OnSuccessThrows(t) ==
  /\ tasks[t].status = "hook"
  /\ ExecutorSucceeds(t) /\ OnSuccessFails(t)
  /\ tasks' = [tasks EXCEPT ![t].status = "failhook"]
  /\ rt' = RunnerExecuteSettle(rt, tasks[t].runner, FALSE)
  /\ notified' = Notified(<<>>)
  /\ UNCHANGED <<config, refusals, active, state, dequeueActive, runners, pulling, nonePending,
                 enqConts, disposeConts, finallyPending, attempts, reported>>
  /\ idleOrder' = IdleOrderAfter(<<>>)

\* Runner.execute returns or throws: its finally clause runs and its promise settles
RunnerFinish(t) ==
  /\ \/ tasks[t].status = "failhook"
     \/ tasks[t].status = "hook" /\ ~(ExecutorSucceeds(t) /\ OnSuccessFails(t))
  /\ tasks' = [tasks EXCEPT ![t].status = "settled"]
  /\ rt' = RunnerExecuteFinally(rt, tasks[t].runner)
  /\ notified' = Notified(<<>>)
  /\ UNCHANGED <<config, refusals, active, state, dequeueActive, runners, pulling, nonePending,
                 enqConts, disposeConts, finallyPending, attempts, reported>>
  /\ idleOrder' = IdleOrderAfter(<<tasks[t].runner>>)

\* the .then callbacks of #dequeue: onTaskFinished on success; on failure the
\* task is passed to enqueue() again, or onTaskFinished gets the error (the
\* Error of the busy guard is no RunnerExecutionError and is never retried)
ThenCallback(t) ==
  /\ tasks[t].status \in {"settled", "refused"}
  /\ LET retried == /\ tasks[t].status = "settled"
                    /\ ~ExecuteResolves(t)
                    /\ ShouldRetry(t, tasks[t].executionCount)
     IN  /\ tasks' = [tasks EXCEPT ![t].status = IF retried THEN "enqueuing" ELSE "finished",
                                   ![t].executionCount = IF retried THEN EnqueuedCount(@) ELSE @,
                                   ![t].runner = 0]
         /\ reported' = [reported EXCEPT ![t] = @ + OnTaskFinishedCalls(retried)]
  /\ finallyPending' = [finallyPending EXCEPT ![tasks[t].runner] = @ + 1]
  /\ notified' = Notified(<<>>)
  /\ UNCHANGED <<config, refusals, active, state, dequeueActive, runners, rt, pulling,
                 nonePending, enqConts, disposeConts, attempts>>
  /\ idleOrder' = IdleOrderAfter(<<>>)

\* the .finally callback of #dequeue: a runner that reached
\* maximumTaskPerRunner leaves the live set, then #dequeue is entered
FinallyCallback(r) ==
  /\ finallyPending[r] > 0
  /\ finallyPending' = [finallyPending EXCEPT ![r] = @ - 1]
  /\ dequeue(active, state, dequeueActive,
             IF Retire(r, rt) THEN SetDelete(runners, r) ELSE runners, rt)
  /\ notified' = Notified(<<>>)
  /\ UNCHANGED <<config, refusals, active, tasks, nonePending, enqConts, attempts, reported>>
  /\ idleOrder' = IdleOrderAfter(<<>>)

\* #disposeIdleRunners after `await Promise.all(...)`
DisposeCont ==
  /\ disposeConts > 0
  /\ disposeConts' = disposeConts - 1
  /\ state' = (IF Len(runners) = 0 THEN "drained" ELSE state)
  /\ notified' = Notified(IF Len(runners) = 0 THEN <<"drained">> ELSE <<>>)
  /\ UNCHANGED <<config, refusals, active, dequeueActive, runners, rt, tasks, pulling,
                 nonePending, enqConts, finallyPending, attempts, reported>>
  /\ idleOrder' = IdleOrderAfter(<<>>)

Next ==
  \/ Start
  \/ Pause
  \/ \E t \in Tasks : Enqueue(t)
  \/ \E t \in Tasks : ProviderEnqueue(t)
  \/ \E t \in Tasks : ProviderRequeue(t)
  \/ ProviderDequeue
  \/ EnqueueCont
  \/ DequeueNone
  \/ \E t \in Tasks : DequeueTask(t)
  \/ \E t \in Tasks : ExecutorSettles(t)
  \/ \E t \in Tasks : OnSuccessThrows(t)
  \/ \E t \in Tasks : RunnerFinish(t)
  \/ \E t \in Tasks : ThenCallback(t)
  \/ \E r \in RunnerIds : FinallyCallback(r)
  \/ DisposeCont

Spec == Init /\ [][Next]_vars

\* A pool whose caller never calls pause(): #disposeIdleRunners is never entered
NextRun ==
  \/ Start
  \/ \E t \in Tasks : Enqueue(t)
  \/ \E t \in Tasks : ProviderEnqueue(t)
  \/ \E t \in Tasks : ProviderRequeue(t)
  \/ ProviderDequeue
  \/ EnqueueCont
  \/ DequeueNone
  \/ \E t \in Tasks : DequeueTask(t)
  \/ \E t \in Tasks : ExecutorSettles(t)
  \/ \E t \in Tasks : OnSuccessThrows(t)
  \/ \E t \in Tasks : RunnerFinish(t)
  \/ \E t \in Tasks : ThenCallback(t)
  \/ \E r \in RunnerIds : FinallyCallback(r)

SpecRun == Init /\ [][NextRun]_vars

\* enqueue(task) called on an active pool whose state is drained, as an
\* onStateChange("drained") handler does
EnqueueWhenDrained(t) ==
  /\ active
  /\ state = "drained"
  /\ Enqueue(t)

\* A pool whose caller never calls pause() and calls enqueue() only after the
\* pool has drained by exhaustion
NextRestart ==
  \/ Start
  \/ \E t \in Tasks : EnqueueWhenDrained(t)
  \/ \E t \in Tasks : ProviderEnqueue(t)
  \/ \E t \in Tasks : ProviderRequeue(t)
  \/ ProviderDequeue
  \/ EnqueueCont
  \/ DequeueNone
  \/ \E t \in Tasks : DequeueTask(t)
  \/ \E t \in Tasks : ExecutorSettles(t)
  \/ \E t \in Tasks : OnSuccessThrows(t)
  \/ \E t \in Tasks : RunnerFinish(t)
  \/ \E t \in Tasks : ThenCallback(t)
  \/ \E r \in RunnerIds : FinallyCallback(r)

SpecRestart == Init /\ [][NextRestart]_vars

\* start() called after every task has been passed to enqueue() and stored by
\* the provider, as the tests do
StartPreloaded ==
  /\ \A t \in Tasks : tasks[t].status = "queued"
  /\ Start

\* A pool whose caller never calls pause() and calls start() once the queue
\* holds every task
NextPreloaded ==
  \/ StartPreloaded
  \/ \E t \in Tasks : Enqueue(t)
  \/ \E t \in Tasks : ProviderEnqueue(t)
  \/ \E t \in Tasks : ProviderRequeue(t)
  \/ ProviderDequeue
  \/ EnqueueCont
  \/ DequeueNone
  \/ \E t \in Tasks : DequeueTask(t)
  \/ \E t \in Tasks : ExecutorSettles(t)
  \/ \E t \in Tasks : OnSuccessThrows(t)
  \/ \E t \in Tasks : RunnerFinish(t)
  \/ \E t \in Tasks : ThenCallback(t)
  \/ \E r \in RunnerIds : FinallyCallback(r)

SpecPreloaded == Init /\ [][NextPreloaded]_vars

\* some code that holds the runner r, for instance from the `runner` argument
\* of onTaskFinished, calls r.execute while r is busy
ExecuteWhileBusy(r) ==
  /\ RunnerExecuteRefuses(rt, r)
  /\ refusals < MaxPending
  /\ refusals' = refusals + 1
  /\ rt' = RunnerExecuteBusy(rt, r)
  /\ notified' = Notified(<<>>)
  /\ UNCHANGED <<config, active, state, dequeueActive, runners, tasks, pulling,
                 nonePending, enqConts, disposeConts, finallyPending, attempts, reported>>
  /\ idleOrder' = IdleOrderAfter(<<>>)

\* A pool whose caller never calls pause(), with callers of Runner.execute
\* besides the dispatcher
NextMisuse ==
  \/ NextRun
  \/ \E r \in RunnerIds : ExecuteWhileBusy(r)

SpecMisuse == Init /\ [][NextMisuse]_vars

\* the orders in which the runners of S can have become idle
Orders(S) ==
  {o \in [1..Cardinality(S) -> S] : \A i, j \in 1..Cardinality(S) : o[i] = o[j] => i = j}

\* Runner resolution taken alone. The pool is active and one #dequeue
\* invocation has just been handed task 1. The live set holds the runners
\* 1..n in the order of their creation, at most one of them busy (with task 2)
\* and the others idle after one execution each, whose tasks are finished
\* and gone from the queue; the idle ones became idle in any order.
InitResolve ==
  /\ concurrency \in 1..MaxConcurrency
  /\ maximumRetries = 0
  /\ maximumTaskPerRunner = Infinity
  /\ failing = {}
  /\ hooks = NoHooks
  /\ refusals = 0
  /\ active = TRUE
  /\ state = "running"
  /\ dequeueActive \in BOOLEAN
  /\ notified = [last |-> "running", repeated |-> FALSE]
  /\ pulling = 0
  /\ nonePending = 0
  /\ enqConts = 0
  /\ disposeConts = 0
  /\ finallyPending = [r \in RunnerIds |-> 0]
  /\ reported = [t \in Tasks |-> 0]
  /\ \E n \in 0..concurrency, name1 \in Registered \cup {"U"} :
     \E names \in [1..n -> Registered], busyOne \in 0..n :
       /\ runners = [i \in 1..n |-> i]
       /\ rt = [r \in RunnerIds |->
                  IF r > n THEN NoRunner
                  ELSE IF r = busyOne THEN RunnerExecuteStart(r :> NewRunner(names[r]), r)[r]
                  ELSE RunnerExecuteFinally(
                         RunnerExecuteSettle(r :> NewRunner(names[r]), r, TRUE), r)[r]]
       /\ idleOrder \in Orders((1..n) \ {busyOne})
       /\ tasks = [t \in Tasks |->
                     IF t = 1
                     THEN [name |-> name1, status |-> "dequeued",
                           executionCount |-> 0, runner |-> 0]
                     ELSE IF t = 2 /\ busyOne # 0
                     THEN [name |-> names[busyOne], status |-> "exec",
                           executionCount |-> 1, runner |-> busyOne]
                     ELSE [name |-> "A", status |-> "new",
                           executionCount |-> Missing, runner |-> 0]]
       /\ attempts = [t \in Tasks |-> IF t = 2 /\ busyOne # 0 THEN 1 ELSE 0]

\* the one step of runner resolution: #dequeue resumes with its task
NextResolve == \E t \in Tasks : DequeueTask(t)

SpecResolve == InitResolve /\ [][NextResolve]_vars

TypeOK ==
  /\ active \in BOOLEAN
  /\ state \in {"running", "draining", "drained"}
  /\ dequeueActive \in BOOLEAN
  /\ pulling \in Nat /\ nonePending \in Nat /\ enqConts \in Nat /\ disposeConts \in Nat

\* ---- the claims ----------------------------------------------------------

BusyRunners == {r \in RunnerIds : rt[r].busy}
LiveSet == {runners[i] : i \in 1..Len(runners)}

\* C1: in every reachable state the number of runners in the live set is at
\* most the configured concurrency.
C1_LiveRunnersWithinConcurrency == Len(runners) <= concurrency

\* C1 witness: the live set is full, every live runner is busy and a task has
\* been bounced because resolution found no runner
C1_Witness ==
  /\ Len(runners) = concurrency
  /\ \A r \in LiveSet : rt[r].busy
  /\ \E t \in Tasks : tasks[t].status = "bouncing"

\* C2: at no instant are more than `concurrency` executions in flight, counting
\* every busy runner, in the live set or not.
C2_ExecutionsWithinConcurrency == Cardinality(BusyRunners) <= concurrency

\* C4: at most one invocation of the dequeue loop is between its activity check
\* and its dispatch or stop decision.
C4_OneChainPulling ==
  pulling + nonePending + Cardinality({t \in Tasks : tasks[t].status = "dequeued"}) <= 1

\* nothing of the dispatcher, the provider or the executors is pending: every
\* promise has settled and every continuation has run
Quiescent ==
  /\ pulling = 0 /\ nonePending = 0 /\ enqConts = 0 /\ disposeConts = 0
  /\ \A r \in RunnerIds : finallyPending[r] = 0
  /\ \A t \in Tasks : tasks[t].status \in {"new", "queued", "finished"}

\* C3: with the pool started, a provider that hands no task out twice and
\* executors that always succeed, every task passed to enqueue() is executed and
\* the pool ends drained with no task left in the queue: once nothing is
\* pending any more, no task is left behind.
C3_AllTasksProcessed ==
  (active /\ failing = {} /\ Quiescent) =>
     /\ \A t \in Tasks : tasks[t].status # "new" => tasks[t].status = "finished"
     /\ state = "drained"

\* C5: with maximumRetries = k a task whose executor always fails is attempted
\* exactly k+1 times and only then reported once to onTaskFinished.
C5_RetriesThenOneReport ==
  \A t \in Tasks :
    (~ExecutorSucceeds(t) /\ reported[t] > 0) =>
       (attempts[t] = maximumRetries + 1 /\ reported[t] = 1)

\* a step that changes the state to drained
BecomesDrained == state # "drained" /\ state' = "drained"

C7_NoExecutionStartsWhilePaused ==
  [][(~active /\ ~active') => \A t \in Tasks : attempts'[t] = attempts[t]]_vars

\* C8: the dispose hook is never invoked on a busy runner.
C8_DisposeOnlyIdle ==
  [][\A r \in RunnerIds :
       (~rt[r].disposed /\ rt'[r].disposed) => (~rt[r].busy /\ ~rt'[r].busy)]_vars

\* C8 witness: the pool is draining, one runner has been disposed and another
\* runner, busy, was left alone
C8_Witness ==
  /\ state = "draining"
  /\ \E r \in RunnerIds : rt[r].disposed
  /\ \E r \in LiveSet : rt[r].busy /\ ~rt[r].disposed

\* C9: after pause() with no later start(), once the state is drained the live
\* set is empty and every runner ever created has been disposed.
C9_DrainedAfterPauseIsEmpty ==
  (~active /\ state = "drained") =>
     /\ Len(runners) = 0
     /\ \A r \in RunnerIds : Created(rt, r) => rt[r].disposed

\* C10: on a pool that is never paused, drained is never signalled while a task
\* is queued, in flight, or completed but not yet reported.
C10_DrainedMeansAllReported ==
  [][BecomesDrained =>
       \A t \in Tasks : tasks'[t].status \in {"new", "enqueuing", "finished"}]_vars

\* C11: onTaskFinished is invoked at most once for a task, exactly when the
\* task succeeds or fails for good, and never for a failed attempt that is
\* passed to enqueue() again: a task has one report when it is finished and
\* none before, whatever number of attempts it has had.
C11_ReportedOnceAtTheEnd ==
  \A t \in Tasks : reported[t] = (IF tasks[t].status = "finished" THEN 1 ELSE 0)

\* C11 witness: a task was retried and then reported, once
C11_Witness ==
  \E t \in Tasks : attempts[t] = 2 /\ reported[t] = 1 /\ tasks[t].status = "finished"

\* C12: whenever runner.execute is invoked for a task, the executionCount of
\* the task is the number of attempts made for it, this one included:
\* enqueue() turns a missing count into 0, every attempt adds one, and neither
\* a bounce nor a retry resets it.
C12_ExecutionCountIsAttempts ==
  \A t \in Tasks :
     /\ tasks[t].status = "new" => tasks[t].executionCount = Missing
     /\ tasks[t].status # "new" => tasks[t].executionCount = attempts[t]

\* C12 witness: the second attempt of a task is executing
C12_Witness ==
  \E t \in Tasks : tasks[t].status = "exec" /\ attempts[t] = 2

\* C13: the dispatcher never invokes execute on a busy runner: the runner that
\* resolution returns is idle or new, so no execute call of the dispatcher is
\* refused by the busy guard of Runner.execute.
C13_NeverExecuteOnBusyRunner ==
  \A t \in Tasks : tasks[t].status # "refused"

\* C13 witness: a task was dispatched while a runner of its name was busy in
\* the live set, and runs on another runner
C13_Witness ==
  \E t, u \in Tasks :
     /\ tasks[t].status = "exec" /\ tasks[u].status = "exec"
     /\ tasks[t].runner # tasks[u].runner
     /\ tasks[t].name = tasks[u].name
     /\ InSeq(tasks[t].runner, runners) /\ InSeq(tasks[u].runner, runners)

\* C14: no runner ever starts more than maximumTaskPerRunner executions: the
\* executions a runner has finished plus the one it is running never exceed
\* the limit.
C14_RunnerStartsWithinLimit ==
  \A r \in RunnerIds :
     rt[r].executionCount + (IF rt[r].busy THEN 1 ELSE 0) <= maximumTaskPerRunner

\* C15: every runner that has left the live set has been disposed, the runners
\* retired for reaching maximumTaskPerRunner included.
C15_RetiredRunnersDisposed ==
  \A r \in RunnerIds :
     (Created(rt, r) /\ ~InSeq(r, runners)) => rt[r].disposed

\* C16: enqueue() on an inactive pool only forwards the task to the provider:
\* neither the call nor its continuation after the provider's enqueue enters
\* the dequeue loop, and both leave the state, the live set and the
\* re-entrancy flag as they were.
C16_EnqueueOnInactivePoolOnlyForwards ==
  [][(/\ ~active
      /\ \/ enqConts' < enqConts
         \/ \E t \in Tasks : tasks[t].status = "new" /\ tasks'[t].status = "enqueuing")
     => UNCHANGED <<active, state, runners, rt, dequeueActive, pulling, nonePending,
                    disposeConts>>]_vars

\* C16 witness: a task was stored through enqueue() and the continuation has
\* run, on a pool that is inactive, at rest and has no runner
C16_Witness ==
  /\ ~active /\ state = "drained" /\ ~dequeueActive
  /\ enqConts = 0 /\ pulling = 0 /\ nonePending = 0
  /\ Len(runners) = 0
  /\ \A t \in Tasks : tasks[t].status = "queued"

\* C17: a task passed to enqueue() after an active pool has drained by
\* exhaustion is executed without a further start(): once nothing is pending
\* any more, every such task has had an attempt.
C17_EnqueueAfterDrainIsExecuted ==
  (active /\ Quiescent) =>
     \A t \in Tasks : tasks[t].status # "new" => attempts[t] >= 1

\* C18: onStateChange fires exactly once per change of the state: the last
\* call always carries the current state (before the first change there was
\* none), and no call ever carried the value of the call before it, so
\* assigning the current value produces no call.
C18_OneNotificationPerChange ==
  /\ ~notified.repeated
  /\ IF notified.last = "none" THEN state = "drained" ELSE notified.last = state

\* C18 witness: an active pool went to running and drained by exhaustion
C18_Witness ==
  /\ active /\ state = "drained" /\ notified.last = "drained"
  /\ nonePending > 0

\* C19: starting from drained, every change of the state is one of
\* drained -> running, running -> draining, draining -> drained and
\* running -> drained; the state never goes from draining to running nor from
\* drained to draining.
C19_OnlyFourTransitions ==
  [][state' # state =>
       <<state, state'>> \in {<<"drained", "running">>, <<"running", "draining">>,
                              <<"draining", "drained">>, <<"running", "drained">>}]_vars

\* C19 as the code has it: the state becomes running only in a step that
\* leaves the pool active (start(), or a restart by enqueue()), also from
\* draining; it becomes draining only in pause(), the step that makes an
\* active pool inactive, also from drained; it becomes drained only in the two
\* drain tests, which leave #active alone and find every live runner idle.
C19_TransitionsByOperation ==
  [][state' # state =>
       \/ state' = "running" /\ active'
       \/ state' = "draining" /\ active /\ ~active'
       \/ /\ state' = "drained" /\ active' = active
          /\ \A i \in 1..Len(runners') : ~rt'[runners'[i]].busy]_vars

\* C19 witness: start() on a pool that is still draining, a runner busy
C19_Witness ==
  /\ active /\ state = "running" /\ notified.last = "running"
  /\ disposeConts > 0
  /\ \E r \in LiveSet : rt[r].busy

\* nothing is pending, the tasks whose resolution threw left aside
QuiescentButDropped ==
  /\ pulling = 0 /\ nonePending = 0 /\ enqConts = 0 /\ disposeConts = 0
  /\ \A r \in RunnerIds : finallyPending[r] = 0
  /\ \A t \in Tasks : tasks[t].status \in {"new", "queued", "finished", "dropped"}

\* C20: a dequeued task whose name has no registered executor is lost alone:
\* once nothing is pending after the resolution error, the re-entrancy flag is
\* not left set and every other task passed to enqueue() has been executed.
C20_UnknownNameFatalForThatTaskOnly ==
  (/\ active
   /\ QuiescentButDropped
   /\ \E t \in Tasks : tasks[t].status = "dropped")
  => /\ ~dequeueActive
     /\ \A t \in Tasks :
          (tasks[t].name \in Registered /\ tasks[t].status # "new") => attempts[t] >= 1

\* C21: with concurrency 1 and tasks that alternate between two names, the
\* idle runner of the other name is replaced instead of the task being
\* bounced for good: the live set never holds more than one runner and, once
\* nothing is pending any more, every task has been executed.
C21_SwapRunsEveryTask ==
  (concurrency = 1 /\ \A t \in Tasks : tasks[t].name = AlternatingNames[t])
  => /\ Len(runners) <= 1
     /\ (active /\ Quiescent) => \A t \in Tasks : attempts[t] >= 1

\* C22: no task obtained from the provider's dequeue is dropped without an
\* observable outcome: a dequeued task is never left locked in the provider
\* with neither a report through onTaskFinished nor a hand-back through
\* options.enqueue to come.
C22_NoDequeuedTaskDropped ==
  \A t \in Tasks : tasks[t].status # "dropped"

\* the dispatch of task t evicts the runner r in this step
Evicts(t, r) ==
  /\ tasks[t].status = "dequeued" /\ tasks'[t].status # "dequeued"
  /\ InSeq(r, runners) /\ ~InSeq(r, runners')
  /\ ~rt[r].disposed /\ rt'[r].disposed

\* C23: when resolution evicts for capacity and several idle runners of another
\* name exist, the runner evicted is the one of them that has been idle the
\* longest.
C23_EvictsLeastRecentlyIdle ==
  [][\A t \in Tasks, r \in RunnerIds :
       Evicts(t, r) =>
         r = Head(SelectSeq(idleOrder, LAMBDA q : rt[q].name # tasks[t].name))]_vars

\* C23 as the code has it: the runner evicted is the first idle runner of
\* another name in the insertion order of the live set, the one created
\* first, whenever it became idle.
C23_EvictsFirstInserted ==
  [][\A t \in Tasks, r \in RunnerIds :
       Evicts(t, r) =>
         r = Head(SelectSeq(runners,
                            LAMBDA q : ~rt[q].busy /\ rt[q].name # tasks[t].name))]_vars

\* C23 witness: task 1 runs on a new runner, an idle runner was evicted for it
\* and an idle runner of another name, created later, is still in the live set
C23_Witness ==
  /\ tasks[1].status = "exec"
  /\ \E r, q \in RunnerIds :
       /\ rt[r].disposed /\ ~InSeq(r, runners) /\ rt[r].name # tasks[1].name
       /\ InSeq(q, runners) /\ ~rt[q].busy /\ rt[q].name # tasks[1].name
       /\ r < q

\* C24: a task bounced back to the provider is executed later, as long as the
\* pool stays active and the busy runners complete: while the bounce's
\* options.enqueue is still under way, something that will enter #dequeue
\* after it is left -- an execution in flight, a completion handler, a
\* #dequeue invocation or a doEnqueue continuation.
C24_BouncedTaskIsPickedUp ==
  \A t \in Tasks :
     (active /\ tasks[t].status = "bouncing") =>
        \/ pulling > 0 \/ nonePending > 0 \/ enqConts > 0
        \/ \E r \in RunnerIds : finallyPending[r] > 0
        \/ \E u \in Tasks \ {t} : tasks[u].status \notin {"new", "queued", "finished", "dropped"}

\* C25: a failure whose onFailure hook returned false is never passed to
\* enqueue() again, whatever maximumRetries is: the task has one attempt and
\* is reported; a failure of an executor whose hook is absent or returns
\* nothing is retryable, and is retried when maximumRetries leaves room.
C25_VetoedFailureIsNotRetried ==
  \A t \in Tasks :
     /\ (tasks[t].name \in failing /\ tasks[t].name \in hooks.onFailureFalse)
        => /\ attempts[t] <= 1
           /\ attempts[t] = 1 => tasks[t].status \in {"exec", "hook", "settled", "finished"}
           /\ tasks[t].status = "finished" => reported[t] = 1
     /\ (/\ tasks[t].name \in failing /\ hooks = NoHooks
         /\ maximumRetries = MaxRetries /\ tasks[t].status = "finished")
        => attempts[t] > 1

\* C25 witness: with room for retries, a failure vetoed by its hook has been
\* reported after one attempt
C25_Witness ==
  \E t \in Tasks :
     /\ tasks[t].name \in failing /\ tasks[t].name \in hooks.onFailureFalse
     /\ maximumRetries = MaxRetries
     /\ tasks[t].status = "finished" /\ attempts[t] = 1 /\ reported[t] = 1

\* an execution of task t is between the busy guard of Runner.execute and
\* the settling of its promise
Running(t) == tasks[t].status \in {"exec", "hook", "failhook"}

\* C26: for every Runner.execute call that passed the busy guard the runner
\* is busy until the promise settles, its executionCount does not move in
\* between, and when the promise settles, on whatever path, executionCount
\* has gone up by exactly one and busy is false.
C26_FinalizerOnEveryPath ==
  [][\A t \in Tasks :
       LET r == tasks[t].runner
       IN  /\ Running(t)' => rt'[tasks'[t].runner].busy
           /\ (Running(t) /\ Running(t)') =>
                rt'[r].executionCount = rt[r].executionCount
           /\ (Running(t) /\ ~Running(t)') =>
                /\ tasks'[t].status = "settled"
                /\ rt'[r].executionCount = rt[r].executionCount + 1
                /\ ~rt'[r].busy]_vars

\* C26 witness: an execution whose onSuccess hook threw has settled
C26_Witness ==
  \E t \in Tasks :
     /\ tasks[t].status = "settled" /\ ExecutorSucceeds(t) /\ OnSuccessFails(t)
     /\ rt[tasks[t].runner].executionCount = 1
     /\ ~rt[tasks[t].runner].busy

\* C30: each completed execution of a runner counts as one success or as one
\* failure, never both: whenever a runner is idle its executionCount is the
\* sum of its successCount and its failureCount, also after an onSuccess hook
\* that failed.
C30_CountsAddUp ==
  \A r \in RunnerIds :
     ~rt[r].busy => rt[r].executionCount = rt[r].successCount + rt[r].failureCount

\* C27: Runner.execute invoked on a busy runner fails without side effects:
\* the runner keeps busy and its three counters, no executor or hook runs and
\* no task moves; the execution in flight on the runner is still there, and
\* it clears busy when it finishes.
C27_BusyCallHasNoSideEffect ==
  [][/\ refusals' # refusals => (rt' = rt /\ tasks' = tasks /\ attempts' = attempts)
     /\ \A r \in RunnerIds :
          rt'[r].busy => \E t \in Tasks : Running(t)' /\ tasks'[t].runner = r
     /\ \A t \in Tasks :
          (Running(t) /\ tasks'[t].status = "settled") => ~rt'[tasks[t].runner].busy]_vars

\* C27 witness: a call was refused by the busy guard, and the execution that
\* was in flight has finished since and left the runner idle
C27_Witness ==
  /\ refusals > 0
  /\ \A r \in RunnerIds : ~rt[r].busy
  /\ \E t \in Tasks : tasks[t].status \in {"settled", "finished"}

\* C28: whenever the state is drained no runner is busy: no execution starts
\* or is in flight while the state reads drained.
C28_DrainedMeansNoBusyRunner ==
  state = "drained" => BusyRunners = {}

\* C29: every busy runner is a member of the live set: no runner leaves the
\* live set while it executes a task.
C29_BusyRunnersAreLive ==
  BusyRunners \subseteq LiveSet

====
